---- MODULE Spec2Model ----
(***************************************************************************)
(* valibot-effect: the four parsing entry points of src/src/index.ts       *)
(* (parse, parseAsync, safeParse, safeParseAsync), which lift valibot's    *)
(* parse functions into Effect computations.                               *)
(*                                                                         *)
(* The model has three layers:                                             *)
(*   1. JavaScript values and the Validator (valibot): the schemas of      *)
(*      src/src/parse.test.ts run over a small set of inputs, plus schemas *)
(*      whose custom check throws.                                         *)
(*   2. The Effect runtime: computation values as trees of constructors    *)
(*      (try, tryPromise, suspend, promise, flatMap, succeed, fail) and    *)
(*      the exit each one produces when executed.                          *)
(*   3. The adapter: the four functions as operators that build a          *)
(*      computation value, and the actions that construct and execute      *)
(*      computations.                                                      *)
(***************************************************************************)
EXTENDS Integers, Sequences, FiniteSets, TLC

VARIABLES
    theSchema,       \* the schema the caller passes (fixed for a behaviour)
    theInput,        \* the input the caller passes
    theConfig,       \* the config the caller passes
    constructed,     \* the computations the entry points have returned so far
    constructThrew,  \* whether a constructing call has thrown
    fibers,          \* the executions of those computations, in start order
    validatorCalls   \* how many times a Validator entry point has been invoked

vars == <<theSchema, theInput, theConfig, constructed, constructThrew, fibers, validatorCalls>>

(***************************************************************************)
(* Bounds of the model.                                                    *)
(***************************************************************************)
MaxFibers == 2

(***************************************************************************)
(* Layer 1a: JavaScript values.  Every value is a record tagged by t, and  *)
(* no two kinds share a payload field.  Strings that are computed from an  *)
(* input are sequences of one-character strings.                           *)
(***************************************************************************)
Undefined == [t |-> "undefined"]

Num(n) == [t |-> "number", num |-> n]

Str(cs) == [t |-> "string", chars |-> cs]

Digits == <<"0", "1", "2", "3", "4", "5", "6", "7", "8", "9">>

IsDigit(c) == \E d \in 1..10 : Digits[d] = c

DigitValue(c) == (CHOOSE d \in 1..10 : Digits[d] = c) - 1

\* Number(text) for a text DECIMAL_REGEX accepts and that holds no ".":
\* an optional sign followed by digits.
RECURSIVE DigitsToNat(_)
DigitsToNat(cs) ==
    IF cs = <<>> THEN 0
    ELSE 10 * DigitsToNat(SubSeq(cs, 1, Len(cs) - 1)) + DigitValue(cs[Len(cs)])

HasSign(cs) == cs # <<>> /\ cs[1] \in {"+", "-"}

Unsigned(cs) == IF HasSign(cs) THEN Tail(cs) ELSE cs

ToNumber(cs) ==
    IF HasSign(cs) /\ cs[1] = "-" THEN 0 - DigitsToNat(Tail(cs))
    ELSE DigitsToNat(Unsigned(cs))

\* String(n) for an integer n.
RECURSIVE NatToDigits(_)
NatToDigits(n) ==
    IF n < 10 THEN <<Digits[n + 1]>>
    ELSE NatToDigits(n \div 10) \o <<Digits[(n % 10) + 1]>>

NumberToString(n) == IF n < 0 THEN <<"-">> \o NatToDigits(0 - n) ELSE NatToDigits(n)

\* valibot's _stringify: a string is rendered in double quotes, a number as
\* String(n).
Stringify(x) ==
    IF x.t = "string" THEN <<"\"">> \o x.chars \o <<"\"">>
    ELSE IF x.t = "number" THEN NumberToString(x.num)
    ELSE <<x.t>>

\* A JavaScript array.
Arr(xs) == [t |-> "array", items |-> xs]

\* An Error thrown by user code inside a custom check.
JsError(msg) == [t |-> "Error", message |-> msg]

(***************************************************************************)
(* Layer 1b: the Validator (valibot).  A schema is a pipe of items; running *)
(* it threads a dataset {typed, value, issues} through the items.  The     *)
(* config is undefined or {abortPipeEarly: true}.                          *)
(***************************************************************************)
NoConfig == Undefined

AbortPipeEarly == [t |-> "config", abortPipeEarly |-> TRUE]

Configs == {NoConfig, AbortPipeEarly}

AbortsEarly(config) == config.t = "config" /\ config.abortPipeEarly

\* new v.ValiError(issues)
VValiError(issues) == [t |-> "ValiError", issues |-> issues]

\* v.isValiError(error): error instanceof ValiError
isValiError(error) == error.t = "ValiError"

\* _addIssue: one issue appended to the dataset; an issue of a schema item
\* leaves the dataset untyped.
Issue(kind, type, input, expected, received) ==
    [kind |-> kind, type |-> type, input |-> input, expected |-> expected,
     received |-> received]

AddIssue(dataset, item, expected, received) ==
    [dataset EXCEPT
        !.typed = IF item.kind = "schema" THEN FALSE ELSE @,
        !.issues = Append(@, Issue(item.kind, item.type, dataset.value, expected, received))]

\* DECIMAL_REGEX on a text without ".": [+-]? then one or more digits.
IsDecimal(cs) ==
    /\ Unsigned(cs) # <<>>
    /\ \A k \in 1..Len(Unsigned(cs)) : IsDigit(Unsigned(cs)[k])

\* The items of the pipes.
StringSchema == [kind |-> "schema", type |-> "string"]
NumberSchema == [kind |-> "schema", type |-> "number"]
NonEmpty == [kind |-> "validation", type |-> "non_empty"]
Decimal == [kind |-> "validation", type |-> "decimal"]
TransformNumber == [kind |-> "transformation", type |-> "transform"]
MinValue(r) == [kind |-> "validation", type |-> "min_value", requirement |-> r]
MaxValue(r) == [kind |-> "validation", type |-> "max_value", requirement |-> r]
\* v.check(() => { throw thrown })
CheckThrows(thrown) == [kind |-> "validation", type |-> "check", thrown |-> thrown]

\* Whether running the item on the dataset throws: a custom check runs its
\* requirement only on a typed dataset.
ItemThrows(item, dataset) == item.type = "check" /\ dataset.typed

\* item['~run'](dataset, config) for an item that does not throw.
RunItem(item, dataset) ==
    LET value == dataset.value IN
    CASE item.type = "string" ->
            IF value.t = "string" THEN [dataset EXCEPT !.typed = TRUE]
            ELSE AddIssue(dataset, item, "string", Stringify(value))
      [] item.type = "number" ->
            IF value.t = "number" THEN [dataset EXCEPT !.typed = TRUE]
            ELSE AddIssue(dataset, item, "number", Stringify(value))
      [] item.type = "non_empty" ->
            IF dataset.typed /\ Len(value.chars) = 0
            THEN AddIssue(dataset, item, "!0", <<"0">>)
            ELSE dataset
      [] item.type = "decimal" ->
            IF dataset.typed /\ ~IsDecimal(value.chars)
            THEN AddIssue(dataset, item, "null", Stringify(value))
            ELSE dataset
      [] item.type = "transform" ->
            [dataset EXCEPT !.value = Num(ToNumber(value.chars))]
      [] item.type = "min_value" ->
            IF dataset.typed /\ ~(value.num >= item.requirement)
            THEN AddIssue(dataset, item, ">=" \o ToString(item.requirement), Stringify(value))
            ELSE dataset
      [] item.type = "max_value" ->
            IF dataset.typed /\ ~(value.num <= item.requirement)
            THEN AddIssue(dataset, item, "<=" \o ToString(item.requirement), Stringify(value))
            ELSE dataset
      [] item.type = "check" -> dataset

\* What a call completes with: a returned value or a thrown one.
Return(value) == [k |-> "return", value |-> value]
Throw(value) == [k |-> "throw", value |-> value]

\* pipe(...)['~run']: the loop over the items from item i on.
RECURSIVE RunPipe(_, _, _, _)
RunPipe(items, i, dataset, config) ==
    IF i > Len(items) THEN Return(dataset)
    ELSE IF dataset.issues # <<>> /\ items[i].kind \in {"schema", "transformation"}
    THEN Return([dataset EXCEPT !.typed = FALSE])
    ELSE IF dataset.issues = <<>> \/ ~AbortsEarly(config)
    THEN IF ItemThrows(items[i], dataset) THEN Throw(items[i].thrown)
         ELSE RunPipe(items, i + 1, RunItem(items[i], dataset), config)
    ELSE RunPipe(items, i + 1, dataset, config)

\* The schemas.  "schema" and "schemaAsync" are those of the tests (their
\* nested pipes flattened: a nested pipe is a schema item, and the loop breaks
\* at it exactly as it breaks at the item's own root schema).  The other
\* two have a custom check that throws: an Error, or a ValiError instance.
ThrownError == JsError("boom")

ThrownValiError ==
    VValiError(<<Issue("validation", "check", Str(<<>>), "null", <<>>)>>)

TestPipe ==
    <<StringSchema, NonEmpty, Decimal, TransformNumber, NumberSchema,
      MinValue(0), MaxValue(100)>>

SchemaOf(name) ==
    CASE name = "schema" -> [async |-> FALSE, pipe |-> TestPipe]
      [] name = "schemaAsync" -> [async |-> TRUE, pipe |-> TestPipe]
      [] name = "checkThrows" ->
            [async |-> FALSE, pipe |-> <<StringSchema, CheckThrows(ThrownError)>>]
      [] name = "checkThrowsValiError" ->
            [async |-> FALSE, pipe |-> <<StringSchema, CheckThrows(ThrownValiError)>>]

Schemas == {"schema", "schemaAsync", "checkThrows", "checkThrowsValiError"}

SyncSchemas == {s \in Schemas : ~SchemaOf(s).async}

\* The inputs the model draws from.
Inputs ==
    { Str(<<"1", "0", "0">>), Num(100), Str(<<>>), Str(<<"1", "0", "1">>),
      Str(<<"-", "1">>), Str(<<"a">>) }

\* schema['~run']({ value: input }, config)
RunSchema(schema, input, config) ==
    RunPipe(SchemaOf(schema).pipe, 1,
            [typed |-> FALSE, value |-> input, issues |-> <<>>], config)

\* v.parse: returns the output, or throws a ValiError of the issues; a throw
\* of a custom check propagates.
vParse(schema, input, config) ==
    LET r == RunSchema(schema, input, config) IN
    IF r.k = "throw" THEN r
    ELSE IF r.value.issues # <<>> THEN Throw(VValiError(r.value.issues))
    ELSE Return(r.value.value)

\* The result record of the non-throwing entry points.
SafeParseResult(dataset) ==
    [t |-> "result", typed |-> dataset.typed, success |-> dataset.issues = <<>>,
     output |-> dataset.value,
     issues |-> IF dataset.issues = <<>> THEN Undefined ELSE Arr(dataset.issues)]

\* v.safeParse: returns the result record; a throw of a custom check
\* propagates.
vSafeParse(schema, input, config) ==
    LET r == RunSchema(schema, input, config) IN
    IF r.k = "throw" THEN r ELSE Return(SafeParseResult(r.value))

\* A settled promise.
Fulfilled(value) == [t |-> "promise", state |-> "fulfilled", value |-> value]
Rejected(reason) == [t |-> "promise", state |-> "rejected", value |-> reason]

PromiseOf(completion) ==
    IF completion.k = "return" THEN Fulfilled(completion.value)
    ELSE Rejected(completion.value)

\* v.parseAsync and v.safeParseAsync are async functions: what the
\* synchronous form returns they resolve with, what it throws they reject
\* with.
vParseAsync(schema, input, config) == PromiseOf(vParse(schema, input, config))

vSafeParseAsync(schema, input, config) == PromiseOf(vSafeParse(schema, input, config))

(***************************************************************************)
(* Layer 2: the Effect runtime.  A computation value is a tree of          *)
(* constructors; a function passed to a constructor is kept as data: a     *)
(* thunk names the Validator call it makes when forced.                    *)
(***************************************************************************)
Thunk(call, s, i, c) == [call |-> call, schema |-> s, input |-> i, config |-> c]

\* Forcing a thunk invokes the Validator entry point it names.  The
\* asynchronous entry points return a promise and never throw.
Force(thunk) ==
    CASE thunk.call = "v.parse" -> vParse(thunk.schema, thunk.input, thunk.config)
      [] thunk.call = "v.safeParse" -> vSafeParse(thunk.schema, thunk.input, thunk.config)
      [] thunk.call = "v.parseAsync" ->
            Return(vParseAsync(thunk.schema, thunk.input, thunk.config))
      [] thunk.call = "v.safeParseAsync" ->
            Return(vSafeParseAsync(thunk.schema, thunk.input, thunk.config))

EffectSucceed(value) == [_op |-> "succeed", value |-> value]
EffectFail(error) == [_op |-> "fail", error |-> error]
EffectTry(thunk) == [_op |-> "try", thunk |-> thunk]
EffectTryPromise(thunk) == [_op |-> "tryPromise", thunk |-> thunk]
EffectSuspend(thunk) == [_op |-> "suspend", thunk |-> thunk]
EffectPromise(thunk) == [_op |-> "promise", thunk |-> thunk]
EffectFlatMap(self) == [_op |-> "flatMap", self |-> self]

\* The exit of an execution: a success, a typed failure, or a defect.
ExitSucceed(value) == [_tag |-> "Success", value |-> value]
ExitFail(error) == [_tag |-> "Failure", cause |-> [_tag |-> "Fail", error |-> error]]
ExitDie(defect) == [_tag |-> "Failure", cause |-> [_tag |-> "Die", defect |-> defect]]

IsSuccess(exit) == exit._tag = "Success"
IsFail(exit) == exit._tag = "Failure" /\ exit.cause._tag = "Fail"
IsDie(exit) == exit._tag = "Failure" /\ exit.cause._tag = "Die"

NoExit == [_tag |-> "None"]
NoPromise == [t |-> "none"]

(***************************************************************************)
(* Layer 3: the adapter.                                                   *)
(***************************************************************************)
\* class ValiError extends Data.TaggedError("ValiError")<{ cause }>
ValiError(cause) == [_tag |-> "ValiError", cause |-> cause]

\* A catch handler that keeps the cause only when isValiError accepts it.
catchRecognizedOnly(cause) == ValiError(IF isValiError(cause) THEN cause ELSE Undefined)

\* The catch handler of parse and of parseAsync.
catch(cause) == ValiError(IF isValiError(cause) THEN cause ELSE cause)

\* A suspend body that fails with the first issue alone.
suspendBodyFirstIssue(result) ==
    IF result.success THEN EffectSucceed(result.output)
    ELSE EffectFail(Arr(<<Head(result.issues.items)>>))

\* A suspend body that succeeds with the result record instead of its output.
suspendBodyWholeResult(result) ==
    IF result.success THEN EffectSucceed(result) ELSE EffectFail(result.issues)

\* The mapping of a result record in the body of safeParse's suspend.
suspendBody(result) ==
    IF result.success THEN EffectSucceed(result.output) ELSE EffectFail(result.issues)

\* A flatMap function that wraps the issues as parse does.
flatMapFWrapped(result) ==
    IF result.success THEN EffectSucceed(result.output)
    ELSE EffectFail(ValiError(VValiError(result.issues.items)))

\* A flatMap function with its test inverted.
flatMapFInverted(result) ==
    IF ~result.success THEN EffectSucceed(result.output) ELSE EffectFail(result.issues)

\* The function safeParseAsync passes to flatMap.
flatMapF(result) ==
    IF result.success THEN EffectSucceed(result.output) ELSE EffectFail(result.issues)

\* What a call of an entry point did: how it completed (the computation it
\* returned, or what it threw) and how many times it invoked the Validator
\* before completing.
Called(completion, invoked) == [completion |-> completion, invoked |-> invoked]

\* A parse whose try thunk calls v.safeParse, as parseAsync of index.ts
\* calls v.safeParseAsync.
parseViaSafeParse(schema, input, config) ==
    Called(Return(EffectTry(Thunk("v.safeParse", schema, input, config))), 0)

\* A parse with v.parse hoisted out of the thunk: the constructing call
\* validates once and every execution replays that outcome.
parseEager(schema, input, config) ==
    LET c == vParse(schema, input, config) IN
    Called(IF c.k = "throw" THEN c ELSE Return(EffectSucceed(c.value)), 1)

parse(schema, input, config) ==
    Called(Return(EffectTry(Thunk("v.parse", schema, input, config))), 0)

\* parseAsync of index.ts: its try thunk calls v.safeParseAsync.
parseAsync(schema, input, config) ==
    Called(Return(EffectTryPromise(Thunk("v.safeParseAsync", schema, input, config))), 0)

\* parseAsync of parse.ts (the module the tests import): its try thunk
\* calls v.parseAsync.
parseTsParseAsync(schema, input, config) ==
    Called(Return(EffectTryPromise(Thunk("v.parseAsync", schema, input, config))), 0)

\* A safeParse without Effect.suspend: the constructing call itself invokes
\* v.safeParse and returns the finished succeed or fail.
safeParseEager(schema, input, config) ==
    LET c == vSafeParse(schema, input, config) IN
    Called(IF c.k = "throw" THEN c ELSE Return(suspendBody(c.value)), 1)

safeParse(schema, input, config) ==
    Called(Return(EffectSuspend(Thunk("v.safeParse", schema, input, config))), 0)

safeParseAsync(schema, input, config) ==
    Called(Return(EffectFlatMap(
        EffectPromise(Thunk("v.safeParseAsync", schema, input, config)))), 0)

(***************************************************************************)
(* Executing a computation.  Begin runs it up to its first suspension      *)
(* point (the await of a promise) or to its exit; Resume runs it from the  *)
(* settled promise to its exit.  calls counts the Validator invocations    *)
(* and wrapped the ValiError constructions of the execution.               *)
(***************************************************************************)
Done(exit, calls, wrapped) ==
    [pc |-> "done", exit |-> exit, promise |-> NoPromise, calls |-> calls,
     wrapped |-> wrapped]

Pending(promise, calls) ==
    [pc |-> "pending", exit |-> NoExit, promise |-> promise, calls |-> calls,
     wrapped |-> 0]

\* The exit of Effect.succeed / Effect.fail.
ExitOf(effect) ==
    IF effect._op = "succeed" THEN ExitSucceed(effect.value) ELSE ExitFail(effect.error)

Begin(effect) ==
    CASE effect._op \in {"succeed", "fail"} -> Done(ExitOf(effect), 0, 0)
      [] effect._op = "try" ->
            \* Effect.try: a throw of the thunk fails with catch(thrown)
            LET c == Force(effect.thunk) IN
            IF c.k = "return" THEN Done(ExitSucceed(c.value), 1, 0)
            ELSE Done(ExitFail(catch(c.value)), 1, 1)
      [] effect._op = "suspend" ->
            \* Effect.suspend: a throw of the thunk is a defect
            LET c == Force(effect.thunk) IN
            IF c.k = "return" THEN Done(ExitOf(suspendBody(c.value)), 1, 0)
            ELSE Done(ExitDie(c.value), 1, 0)
      [] effect._op = "tryPromise" ->
            Pending(Force(effect.thunk).value, 1)
      [] effect._op = "flatMap" ->
            Pending(Force(effect.self.thunk).value, 1)

Resume(effect, promise, calls) ==
    CASE effect._op = "tryPromise" ->
            \* Effect.tryPromise: a rejection fails with catch(reason)
            IF promise.state = "fulfilled" THEN Done(ExitSucceed(promise.value), calls, 0)
            ELSE Done(ExitFail(catch(promise.value)), calls, 1)
      [] effect._op = "flatMap" ->
            \* Effect.promise: a rejection is a defect
            IF promise.state = "fulfilled"
            THEN Done(ExitOf(flatMapF(promise.value)), calls, 0)
            ELSE Done(ExitDie(promise.value), calls, 0)

(***************************************************************************)
(* The state machine.                                                      *)
(***************************************************************************)
EntryPoints == {"parse", "parseAsync", "safeParse", "safeParseAsync", "parse.ts:parseAsync"}

Init ==
    /\ theSchema \in Schemas
    /\ theInput \in Inputs
    /\ theConfig \in Configs
    /\ constructed = {}
    /\ constructThrew = FALSE
    /\ fibers = <<>>
    /\ validatorCalls = 0

\* The caller calls an entry point: the call's Validator invocations are
\* counted, and the computation it returns is kept.
Construct(fn, r) ==
    /\ validatorCalls' = validatorCalls + r.invoked
    /\ IF r.completion.k = "return"
       THEN /\ constructed' = constructed \cup {[fn |-> fn, effect |-> r.completion.value]}
            /\ UNCHANGED constructThrew
       ELSE /\ constructThrew' = TRUE
            /\ UNCHANGED constructed
    /\ UNCHANGED <<theSchema, theInput, theConfig, fibers>>

\* parse and safeParse take a synchronous schema only.
CallParse ==
    /\ theSchema \in SyncSchemas
    /\ Construct("parse", parse(theSchema, theInput, theConfig))

CallParseAsync == Construct("parseAsync", parseAsync(theSchema, theInput, theConfig))

CallParseTsParseAsync ==
    Construct("parse.ts:parseAsync", parseTsParseAsync(theSchema, theInput, theConfig))

CallSafeParse ==
    /\ theSchema \in SyncSchemas
    /\ Construct("safeParse", safeParse(theSchema, theInput, theConfig))

CallSafeParseAsync ==
    Construct("safeParseAsync", safeParseAsync(theSchema, theInput, theConfig))

\* The runtime executes a constructed computation: to its exit, or to the
\* await of the Validator's promise.
Execute(c) ==
    /\ Len(fibers) < MaxFibers
    /\ LET b == Begin(c.effect) IN
       /\ fibers' = Append(fibers,
              [fn |-> c.fn, effect |-> c.effect, pc |-> b.pc, exit |-> b.exit,
               promise |-> b.promise, calls |-> b.calls, wrapped |-> b.wrapped])
       /\ validatorCalls' = validatorCalls + b.calls
    /\ UNCHANGED <<theSchema, theInput, theConfig, constructed, constructThrew>>

\* The promise an execution awaits settles.
Settle(k) ==
    /\ fibers[k].pc = "pending"
    /\ LET f == fibers[k]
           r == Resume(f.effect, f.promise, f.calls) IN
       fibers' = [fibers EXCEPT ![k] =
              [fn |-> f.fn, effect |-> f.effect, pc |-> r.pc, exit |-> r.exit,
               promise |-> f.promise, calls |-> r.calls, wrapped |-> r.wrapped]]
    /\ UNCHANGED <<theSchema, theInput, theConfig, constructed, constructThrew,
                   validatorCalls>>

Next ==
    \/ CallParse
    \/ CallParseAsync
    \/ CallParseTsParseAsync
    \/ CallSafeParse
    \/ CallSafeParseAsync
    \/ \E c \in constructed : Execute(c)
    \/ \E k \in DOMAIN fibers : Settle(k)

Spec == Init /\ [][Next]_vars

(***************************************************************************)
(* What the Validator answers for the caller's schema, input and config,   *)
(* and the finished executions of an entry point.                          *)
(***************************************************************************)
\* what v.parse returns or throws
Thrown == vParse(theSchema, theInput, theConfig)

\* what v.safeParse returns or throws
Safe == vSafeParse(theSchema, theInput, theConfig)

\* the promise of v.parseAsync
ThrownAsync == vParseAsync(theSchema, theInput, theConfig)

\* the promise of v.safeParseAsync
SafeAsync == vSafeParseAsync(theSchema, theInput, theConfig)

\* the Validator's non-throwing parse gives a failure record
SafeFails == Safe.k = "return" /\ ~Safe.value.success

\* the Validator's non-throwing parse gives a success record
SafeSucceeds == Safe.k = "return" /\ Safe.value.success

DoneOf(fn) == {k \in DOMAIN fibers : fibers[k].fn = fn /\ fibers[k].pc = "done"}

\* the exit is a typed failure with this error
FailsWith(exit, error) == exit = ExitFail(error)

----------------------------------------------------------------------------
\* C1: when validation fails, an execution of parseAsync(schema, input) ends
\* in failure, never in success, and the failure is a ValiError whose cause
\* is the value the Validator's asynchronous throwing parse rejects with.
C1_ParseAsyncFailureIsWrapped ==
    \A k \in DoneOf("parseAsync") :
        ThrownAsync.state = "rejected" =>
            FailsWith(fibers[k].exit, ValiError(ThrownAsync.value))

\* The same statement of parseAsync as parse.ts defines it.
ParseTsParseAsyncFailureIsWrapped ==
    \A k \in DoneOf("parse.ts:parseAsync") :
        ThrownAsync.state = "rejected" =>
            FailsWith(fibers[k].exit, ValiError(ThrownAsync.value))

\* C2: when the Validator's asynchronous validation succeeds, executions of
\* parseAsync and of safeParseAsync end in success with exactly the
\* Validator's output value, not a result record.
C2_AsyncSuccessIsOutput ==
    \A k \in DoneOf("parseAsync") \cup DoneOf("safeParseAsync") :
        ThrownAsync.state = "fulfilled" =>
            fibers[k].exit = ExitSucceed(ThrownAsync.value)

\* The same statement of parse.ts's parseAsync.
ParseTsAsyncSuccessIsOutput ==
    \A k \in DoneOf("parse.ts:parseAsync") :
        ThrownAsync.state = "fulfilled" =>
            fibers[k].exit = ExitSucceed(ThrownAsync.value)

\* C3: when validation fails, an execution of parse(schema, input) ends in
\* failure with a ValiError whose cause is exactly the value the Validator's
\* throwing parse threw; the execution constructs one ValiError, and a
\* successful execution constructs none.
C3_ParseFailureIsWrapped ==
    \A k \in DoneOf("parse") :
        IF Thrown.k = "throw"
        THEN /\ FailsWith(fibers[k].exit, ValiError(Thrown.value))
             /\ fibers[k].exit.cause.error._tag = "ValiError"
             /\ fibers[k].wrapped = 1
        ELSE /\ IsSuccess(fibers[k].exit)
             /\ fibers[k].wrapped = 0

C3_Witness ==
    \E k \in DoneOf("parse") :
        /\ Thrown.k = "throw"
        /\ isValiError(Thrown.value)
        /\ IsFail(fibers[k].exit)
        /\ fibers[k].wrapped = 1

\* C4: when the Validator's non-throwing parse returns a failure record, an
\* execution of safeParse(schema, input) ends in failure with exactly the
\* record's issue sequence, and no ValiError is constructed around it.
C4_SafeParseFailureIsIssues ==
    \A k \in DoneOf("safeParse") :
        SafeFails =>
            /\ FailsWith(fibers[k].exit, Safe.value.issues)
            /\ fibers[k].exit.cause.error.t = "array"
            /\ fibers[k].wrapped = 0

\* a failing execution of safeParse whose failure holds two issues
C4_Witness ==
    \E k \in DoneOf("safeParse") :
        /\ SafeFails
        /\ IsFail(fibers[k].exit)
        /\ Len(fibers[k].exit.cause.error.items) = 2

\* C5: when the Validator's non-throwing parse succeeds, executions of parse
\* and of safeParse both end in success with the Validator's output.
C5_SyncSuccessIsOutput ==
    \A k \in DoneOf("parse") \cup DoneOf("safeParse") :
        SafeSucceeds => fibers[k].exit = ExitSucceed(Safe.value.output)

C5_Witness ==
    /\ SafeSucceeds
    /\ \E k \in DoneOf("parse") : IsSuccess(fibers[k].exit)
    /\ \E k \in DoneOf("safeParse") : IsSuccess(fibers[k].exit)

\* C6: safeParseAsync maps the record the Validator's non-throwing
\* asynchronous parse resolves with as safeParse does: a failure record fails
\* with exactly its issue sequence, a success record succeeds with its
\* output; and for a schema without asynchronous logic its exit equals the
\* exit of safeParse on the same input.
C6_SafeParseAsyncAsSafeParse ==
    \A k \in DoneOf("safeParseAsync") :
        /\ SafeAsync.state = "fulfilled" =>
              IF SafeAsync.value.success
              THEN fibers[k].exit = ExitSucceed(SafeAsync.value.output)
              ELSE FailsWith(fibers[k].exit, SafeAsync.value.issues)
        /\ theSchema \in SyncSchemas =>
              \A j \in DoneOf("safeParse") : fibers[k].exit = fibers[j].exit

\* safeParse and safeParseAsync have both failed on a synchronous schema
C6_Witness ==
    /\ theSchema \in SyncSchemas
    /\ SafeAsync.state = "fulfilled"
    /\ \E k \in DoneOf("safeParseAsync") : IsFail(fibers[k].exit)
    /\ \E j \in DoneOf("safeParse") : IsFail(fibers[j].exit)

\* C7: calling an entry point only constructs a computation: the call
\* throws nothing, and every step that invokes the Validator is the start of
\* an execution, which makes exactly the invocations counted.
C7_ConstructionInvokesNothing ==
    [][/\ ~constructThrew'
       /\ validatorCalls' # validatorCalls =>
             /\ Len(fibers') = Len(fibers) + 1
             /\ validatorCalls' = validatorCalls + fibers'[Len(fibers')].calls
             /\ fibers'[Len(fibers')].calls = 1]_vars

\* every entry point the schema admits has been called on an input that
\* fails validation, and the Validator has not been invoked
C7_Witness ==
    /\ SafeFails
    /\ {c.fn : c \in constructed} = EntryPoints
    /\ validatorCalls = 0
    /\ fibers = <<>>

\* C8: for each of the four entry points, every way the Validator signals
\* failure during an execution (a failure record, a thrown value, a rejected
\* promise) ends the execution as a typed failure: never as a defect and
\* never as a success.
C8_EveryFailureIsTyped ==
    \A k \in DoneOf("parse") \cup DoneOf("parseAsync") \cup DoneOf("safeParse")
                \cup DoneOf("safeParseAsync") :
        ~SafeSucceeds => IsFail(fibers[k].exit)

\* C9: a value thrown while parse executes, or the rejection reason while
\* parseAsync executes, is the cause of the ValiError the execution fails
\* with, unchanged, whether or not isValiError accepts it.
C9_RawCauseIsWrapped ==
    /\ \A k \in DoneOf("parse") :
          Thrown.k = "throw" => FailsWith(fibers[k].exit, ValiError(Thrown.value))
    /\ \A k \in DoneOf("parseAsync") :
          fibers[k].promise.state = "rejected" =>
              FailsWith(fibers[k].exit, ValiError(fibers[k].promise.value))

\* parse and parseAsync have both failed with a cause isValiError rejects
C9_Witness ==
    /\ \E k \in DoneOf("parse") :
          /\ IsFail(fibers[k].exit)
          /\ ~isValiError(fibers[k].exit.cause.error.cause)
    /\ \E k \in DoneOf("parseAsync") :
          /\ IsFail(fibers[k].exit)
          /\ ~isValiError(fibers[k].exit.cause.error.cause)

\* C10: whenever an execution of safeParse or of safeParseAsync ends in a
\* typed failure, the failure value is a sequence of at least one issue.
C10_FailureIsNonEmpty ==
    \A k \in DoneOf("safeParse") \cup DoneOf("safeParseAsync") :
        IsFail(fibers[k].exit) =>
            /\ fibers[k].exit.cause.error.t = "array"
            /\ Len(fibers[k].exit.cause.error.items) >= 1

C10_Witness ==
    /\ \E k \in DoneOf("safeParse") : IsFail(fibers[k].exit)
    /\ \E k \in DoneOf("safeParseAsync") : IsFail(fibers[k].exit)
    /\ theConfig = AbortPipeEarly

\* C11: each execution of a computation invokes the Validator exactly once
\* and reports exactly one outcome, which never changes afterwards (no
\* retry); executing the same computation again invokes the Validator once
\* more and ends in the same outcome.
C11_OneInvocationOneOutcome ==
    /\ [](/\ validatorCalls = Len(fibers)
          /\ \A k \in DOMAIN fibers :
                /\ fibers[k].calls = 1
                /\ fibers[k].pc = "done" <=> (IsSuccess(fibers[k].exit)
                                                \/ IsFail(fibers[k].exit)
                                                \/ IsDie(fibers[k].exit))
                /\ fibers[k].pc = "pending" <=> fibers[k].exit = NoExit
          /\ \A j, k \in DOMAIN fibers :
                (/\ fibers[j].fn = fibers[k].fn
                 /\ fibers[j].pc = "done"
                 /\ fibers[k].pc = "done") => fibers[j].exit = fibers[k].exit)
    /\ [][\A k \in DOMAIN fibers :
             fibers[k].pc = "done" => fibers'[k] = fibers[k]]_vars

\* one computation has been executed twice on an input that fails
\* validation: two invocations, two equal failures
C11_Witness ==
    /\ SafeFails
    /\ validatorCalls = 2
    /\ \E j, k \in DOMAIN fibers :
          /\ j # k
          /\ fibers[j].fn = fibers[k].fn
          /\ fibers[j].pc = "done" /\ fibers[k].pc = "done"
          /\ IsFail(fibers[j].exit)
          /\ fibers[j].exit = fibers[k].exit

====
